---- MODULE Spec2Model ----
(***************************************************************************)
(* Model of the wallet ledger of src/main.go: DBStore.CreateWallet and     *)
(* DBStore.Transfer running as concurrent request workers against one      *)
(* PostgreSQL store (lib/pq, default isolation READ COMMITTED).            *)
(*                                                                         *)
(* The committed tables are `wallets` (id -> balance) and `transactions`   *)
(* (the log).  A Transfer is a database transaction: its statements take   *)
(* row locks and produce row versions that stay private (`writes`,         *)
(* `inserted`) until tx.Commit publishes them in one step; the deferred    *)
(* tx.Rollback discards them.  Balances are float64 in the source; every   *)
(* amount used here is a small integer multiple of 50, which float64       *)
(* represents exactly, so integer arithmetic computes what the code does.  *)
(*                                                                         *)
(* A worker's step is one statement that can wait for a row lock together  *)
(* with the statements after it that touch only the worker's own locals    *)
(* and uncommitted rows (the balance check and the sender UPDATE after the *)
(* SELECT ... FOR UPDATE, the INSERT after the recipient UPDATE): no other *)
(* worker can observe or disturb those, so every interleaving of the       *)
(* statements has the same locks and committed tables as one of the steps. *)
(***************************************************************************)
EXTENDS Integers, Sequences, FiniteSets, TLC

\* ---------------------------------------------------------------- bounds
NumWorkers == 2   \* Transfer requests, each served by its own goroutine
MaxWallets == 2   \* wallets CreateWallet may create
MaxDebits  == 3   \* concurrent Transfers from one sender (SpecDebits)

\* ------------------------------------------------------------- constants
InitialBalance == 100   \* balance := 100.0

Workers == 1..NumWorkers
Ids     == 1..MaxWallets           \* the ids uuid.New can produce
NoWallet == 0                      \* an id no wallet has ("nonexistent")
NoTx    == 0                       \* a row lock nobody holds
\* the amounts a caller passes: negative, zero, and a fresh wallet's whole
\* balance (affordable once, unaffordable after that)
Amounts == {-150, 0, 100}

Empty == [x \in {} |-> 0]

VARIABLES
  wallets,       \* table wallets, committed: [id -> balance]
  transactions,  \* table transactions, committed: Seq of [from, to, amount]
  rowLock,       \* per wallets row, the worker whose transaction holds its lock
  pc,            \* per worker, the statement of Transfer it is about to run
  fromID, toID, amount,   \* per worker, the arguments of its Transfer
  writes,        \* per worker, the uncommitted row versions of its transaction
  inserted,      \* per worker, the uncommitted transactions rows
  result         \* per worker, what its Transfer returned

vars == <<wallets, transactions, rowLock, pc, fromID, toID, amount,
          writes, inserted, result>>

\* Transfer returns: the worker's locals are gone
Return(t) ==
  /\ pc' = [pc EXCEPT ![t] = "done"]
  /\ fromID' = [fromID EXCEPT ![t] = NoWallet]
  /\ toID' = [toID EXCEPT ![t] = NoWallet]
  /\ amount' = [amount EXCEPT ![t] = 0]

Init ==
  /\ wallets = Empty
  /\ transactions = <<>>
  /\ rowLock = Empty
  /\ pc = [t \in Workers |-> "idle"]
  /\ fromID = [t \in Workers |-> NoWallet]
  /\ toID = [t \in Workers |-> NoWallet]
  /\ amount = [t \in Workers |-> 0]
  /\ writes = [t \in Workers |-> Empty]
  /\ inserted = [t \in Workers |-> <<>>]
  /\ result = [t \in Workers |-> "none"]

\* ------------------------------------------------------------ CreateWallet
\* faulty variant: an id that a wallet already has can come out again
ReusedIds == Ids

\* uuid.New(): an id no wallet has
FreshIds == Ids \ DOMAIN wallets

\* INSERT INTO wallets (id, balance) VALUES (id, 100)
CreateWallet ==
  \E id \in FreshIds :
    /\ wallets' = (id :> InitialBalance) @@ wallets
    /\ rowLock' = (id :> NoTx) @@ rowLock
    /\ UNCHANGED <<transactions, pc, fromID, toID, amount,
                   writes, inserted, result>>

\* ---------------------------------------------------------------- Transfer
\* faulty variant: a statement that does not see its transaction's own writes
VisibleCommitted(t, w) == wallets[w]

\* the balance of row w as worker t's transaction sees it: its own
\* uncommitted version if it wrote one, else the committed one
Visible(t, w) == IF w \in DOMAIN writes[t] THEN writes[t][w] ELSE wallets[w]

\* faulty variant: statements that never wait for a row lock
NoRowLock(t, w) == TRUE

\* a row lock can be taken by t when free or already t's
LockFree(t, w) == rowLock[w] \in {NoTx, t}

\* faulty variant: the comparison with its operands swapped
InsufficientFundsSwapped(bal, amt) == amt < bal

\* fromBalance < amount
InsufficientFunds(bal, amt) == bal < amt

DebitValue(bal, amt) == bal - amt

\* faulty variant: the recipient's UPDATE written like the sender's
CreditAsDebit(bal, amt) == bal - amt

CreditValue(bal, amt) == bal + amt

\* faulty variant: the end of a transaction leaves its row locks in place
NotReleased(t) == rowLock

\* the locks as they are after t's transaction ended
Released(t) == [w \in DOMAIN rowLock |-> IF rowLock[w] = t THEN NoTx ELSE rowLock[w]]

\* faulty variant: the statements ran on s.db, outside the transaction, so
\* what they wrote stays when Transfer returns the error
NoRollback(t, err) ==
  /\ wallets' = [w \in DOMAIN wallets |->
        IF w \in DOMAIN writes[t] THEN writes[t][w] ELSE wallets[w]]
  /\ transactions' = transactions \o inserted[t]
  /\ rowLock' = Released(t)
  /\ writes' = [writes EXCEPT ![t] = Empty]
  /\ inserted' = [inserted EXCEPT ![t] = <<>>]
  /\ result' = [result EXCEPT ![t] = err]
  /\ Return(t)

\* return err; deferred tx.Rollback(): the uncommitted versions are dropped,
\* the locks released, the committed tables untouched
Rollback(t, err) ==
  /\ rowLock' = Released(t)
  /\ writes' = [writes EXCEPT ![t] = Empty]
  /\ inserted' = [inserted EXCEPT ![t] = <<>>]
  /\ result' = [result EXCEPT ![t] = err]
  /\ Return(t)
  /\ UNCHANGED <<wallets, transactions>>

\* a caller invokes Transfer(f, g, a); tx := s.db.Begin().  net/http serves
\* every request on a goroutine of its own, so a worker runs one Transfer;
\* the workers are numbered in the order their requests arrive.
TransferBegin(t) ==
  /\ pc[t] = "idle"
  /\ \A u \in Workers : u < t => pc[u] # "idle"
  /\ \E f \in DOMAIN wallets \cup {NoWallet}, g \in DOMAIN wallets \cup {NoWallet},
        a \in Amounts :
       /\ fromID' = [fromID EXCEPT ![t] = f]
       /\ toID' = [toID EXCEPT ![t] = g]
       /\ amount' = [amount EXCEPT ![t] = a]
  /\ pc' = [pc EXCEPT ![t] = "select"]
  /\ UNCHANGED <<wallets, transactions, rowLock, writes, inserted, result>>

\* SELECT balance FROM wallets WHERE id = fromID FOR UPDATE: no row is
\* sql.ErrNoRows; a row locked by another transaction makes the statement wait.
\* Then, with the lock held, on the worker's own locals and row version:
\* if fromBalance < amount { return "insufficient funds" }
\* UPDATE wallets SET balance = balance - amount WHERE id = fromID
TransferSelect(t) ==
  /\ pc[t] = "select"
  /\ IF fromID[t] \notin DOMAIN wallets
       THEN Rollback(t, "no rows")
       ELSE /\ LockFree(t, fromID[t])
            /\ LET fromBalance == Visible(t, fromID[t]) IN
               IF InsufficientFunds(fromBalance, amount[t])
                 THEN Rollback(t, "insufficient funds")
                 ELSE /\ rowLock' = [rowLock EXCEPT ![fromID[t]] = t]
                      /\ writes' = [writes EXCEPT ![t] =
                            (fromID[t] :> DebitValue(fromBalance, amount[t])) @@ @]
                      /\ pc' = [pc EXCEPT ![t] = "credit"]
                      /\ UNCHANGED <<wallets, transactions, fromID, toID, amount,
                                     inserted, result>>

\* UPDATE wallets SET balance = balance + amount WHERE id = toID: a WHERE that
\* matches no row updates nothing and is no error; a row locked by another
\* transaction makes the statement wait.  Then, on the worker's own rows:
\* INSERT INTO transactions (from_wallet, to_wallet, amount)
TransferCredit(t) ==
  /\ pc[t] = "credit"
  /\ IF toID[t] \notin DOMAIN wallets
       THEN UNCHANGED <<rowLock, writes>>
       ELSE /\ LockFree(t, toID[t])
            /\ rowLock' = [rowLock EXCEPT ![toID[t]] = t]
            /\ writes' = [writes EXCEPT ![t] =
                  (toID[t] :> CreditValue(Visible(t, toID[t]), amount[t])) @@ @]
  /\ inserted' = [inserted EXCEPT ![t] =
        Append(@, [from |-> fromID[t], to |-> toID[t], amount |-> amount[t]])]
  /\ pc' = [pc EXCEPT ![t] = "commit"]
  /\ UNCHANGED <<wallets, transactions, fromID, toID, amount, result>>

\* faulty variant: the transaction's INSERT is not published
LogWithoutInsert(t) == transactions

\* table transactions once t's transaction is committed
CommittedLog(t) == transactions \o inserted[t]

\* tx.Commit(); return nil
TransferCommit(t) ==
  /\ pc[t] = "commit"
  /\ wallets' = [w \in DOMAIN wallets |->
        IF w \in DOMAIN writes[t] THEN writes[t][w] ELSE wallets[w]]
  /\ transactions' = CommittedLog(t)
  /\ rowLock' = Released(t)
  /\ writes' = [writes EXCEPT ![t] = Empty]
  /\ inserted' = [inserted EXCEPT ![t] = <<>>]
  /\ result' = [result EXCEPT ![t] = "ok"]
  /\ Return(t)

\* The worker whose lock worker t's next statement waits for (NoTx if t is not
\* waiting): the SELECT ... FOR UPDATE waits for the lock of row fromID, the
\* UPDATE of the recipient for the lock of row toID.
Blocker(t) ==
  LET w == IF pc[t] = "select" THEN fromID[t]
           ELSE IF pc[t] = "credit" THEN toID[t] ELSE NoWallet
  IN IF w \in DOMAIN wallets /\ ~LockFree(t, w) THEN rowLock[w] ELSE NoTx

\* the workers t waits for, directly or through at most k further waits
RECURSIVE WaitsFor(_, _)
WaitsFor(t, k) ==
  IF Blocker(t) = NoTx THEN {}
  ELSE IF k = 0 THEN {Blocker(t)}
  ELSE {Blocker(t)} \cup WaitsFor(Blocker(t), k - 1)

\* t is in a cycle of transactions that each wait for the next one's row lock
InCycle(t) == t \in WaitsFor(t, Cardinality(DOMAIN pc))

\* PostgreSQL's deadlock detector ends such a cycle by failing the waiting
\* statement of one transaction in it: tx.Exec of the recipient's UPDATE
\* returns an error, Transfer returns it and the deferred Rollback runs.
TransferDeadlock(t) ==
  /\ pc[t] = "credit"
  /\ InCycle(t)
  /\ Rollback(t, "deadlock detected")

Next ==
  \/ CreateWallet
  \/ \E t \in Workers :
       \/ TransferBegin(t)
       \/ TransferSelect(t)
       \/ TransferCredit(t)
       \/ TransferCommit(t)
       \/ TransferDeadlock(t)

Spec == Init /\ [][Next]_vars

\* ---- store faults
\* Any statement of the transaction, and tx.Commit, can fail with an error of
\* the store: the SELECT or the sender UPDATE (at "select"), the recipient
\* UPDATE or the INSERT (at "credit"), the Commit (at "commit", where the store
\* reports that it did not commit).  Transfer returns the error and the
\* deferred tx.Rollback runs.
TransferFault(t) ==
  /\ pc[t] \in {"select", "credit", "commit"}
  /\ Rollback(t, "store error")

NextFault ==
  \/ Next
  \/ \E t \in Workers : TransferFault(t)

SpecFault == Init /\ [][NextFault]_vars

\* --------------------------------------------------- GetWallet, GetHistory
\* Both run one plain SELECT through s.db, outside any transaction: the
\* statement reads the committed tables, waits for no row lock and writes
\* nothing, so each is a function of the committed state.

\* faulty variant: the SELECT sees the newest row version, committed or not
GetWalletDirty(walletID) ==
  IF walletID \in DOMAIN wallets
    THEN [err |-> "nil", id |-> walletID,
          balance |-> IF \E t \in DOMAIN writes : walletID \in DOMAIN writes[t]
                        THEN LET t == CHOOSE u \in DOMAIN writes : walletID \in DOMAIN writes[u]
                             IN writes[t][walletID]
                        ELSE wallets[walletID]]
    ELSE [err |-> "no rows", id |-> NoWallet, balance |-> 0]

\* SELECT id, balance FROM wallets WHERE id = walletID; Scan returns
\* sql.ErrNoRows when no row matches
GetWallet(walletID) ==
  IF walletID \in DOMAIN wallets
    THEN [err |-> "nil", id |-> walletID, balance |-> wallets[walletID]]
    ELSE [err |-> "no rows", id |-> NoWallet, balance |-> 0]

\* faulty variant: WHERE from_wallet = $1 only
RowsFromOnly(r, walletID) == r.from = walletID

\* faulty variant: WHERE from_wallet = $1 AND to_wallet = $1
RowsFromAndTo(r, walletID) == r.from = walletID /\ r.to = walletID

\* WHERE from_wallet = $1 OR to_wallet = $1
RowMatches(r, walletID) == r.from = walletID \/ r.to = walletID

RECURSIVE Scanned(_, _, _)
\* for rows.Next() { ...; history = append(history, transaction) } over the
\* first n rows of the table
Scanned(table, walletID, n) ==
  IF n = 0 THEN <<>>
  ELSE LET history == Scanned(table, walletID, n - 1)
       IN IF RowMatches(table[n], walletID)
            THEN Append(history, table[n]) ELSE history

\* the history and a nil error
GetHistoryOf(table, walletID) == Scanned(table, walletID, Len(table))

GetHistory(walletID) == GetHistoryOf(transactions, walletID)

\* ------------------------------------------------------------- helpers
RECURSIVE SumOver(_, _)
\* the sum of f[x] over the x in S
SumOver(f, S) ==
  IF S = {} THEN 0
  ELSE LET x == CHOOSE y \in S : TRUE IN f[x] + SumOver(f, S \ {x})

TotalBalance == SumOver(wallets, DOMAIN wallets)

RECURSIVE SumAmounts(_, _, _)
\* the sum of the amounts of the first n committed records that satisfy P
SumAmounts(P(_), log, n) ==
  IF n = 0 THEN 0
  ELSE (IF P(log[n]) THEN log[n].amount ELSE 0) + SumAmounts(P, log, n - 1)

Credited(w) == LET P(r) == r.to = w IN SumAmounts(P, transactions, Len(transactions))
Debited(w) == LET P(r) == r.from = w IN SumAmounts(P, transactions, Len(transactions))

\* worker t takes a step that ends its Transfer
Returns(t) == pc[t] # "done" /\ pc'[t] = "done"

\* ------------------------------------------------------------- claims

\* C1: in every committed state every wallet's balance is >= 0.
C1_BalanceNonNegative == \A w \in DOMAIN wallets : wallets[w] >= 0

\* C2: in every committed state the balances add up to 100 per wallet created.
C2_Conservation == TotalBalance = InitialBalance * Cardinality(DOMAIN wallets)

\* the committed tables after worker t's Transfer published a debit of its
\* sender, a credit of its recipient and its record, all three
AllVisible(t) ==
  /\ fromID[t] \in DOMAIN wallets
  /\ toID[t] \in DOMAIN wallets
  /\ wallets' = [w \in DOMAIN wallets |->
        wallets[w] - (IF w = fromID[t] THEN amount[t] ELSE 0)
                   + (IF w = toID[t] THEN amount[t] ELSE 0)]
  /\ transactions' = Append(transactions,
        [from |-> fromID[t], to |-> toID[t], amount |-> amount[t]])

\* C3: a Transfer ends Committed, with debit, credit and record all visible,
\* or Aborted, with none of them visible; no other step of it changes the
\* committed tables.
C3_AllOrNothing ==
  [][\A t \in DOMAIN pc :
       /\ Returns(t) =>
            \/ result'[t] = "ok" /\ AllVisible(t)
            \/ result'[t] # "ok" /\ UNCHANGED <<wallets, transactions>>
       /\ (pc'[t] # pc[t] /\ ~Returns(t)) => UNCHANGED <<wallets, transactions>>
    ]_vars

\* the SELECT ... FOR UPDATE of worker t is granted the row lock and reads
\* a sender balance below the amount
ReadsTooLittle(t) ==
  /\ pc[t] = "select"
  /\ fromID[t] \in DOMAIN wallets
  /\ rowLock[fromID[t]] \in {NoTx, t}
  /\ wallets[fromID[t]] < amount[t]

\* C4: a Transfer whose sender balance, read under the row lock, is below the
\* amount returns "insufficient funds" and leaves every balance and the log
\* as they were; nothing of it stays pending.
C4_InsufficientFundsNoEffect ==
  [][\A t \in DOMAIN pc :
       (ReadsTooLittle(t) /\ pc'[t] # pc[t]) =>
          /\ pc'[t] = "done"
          /\ result'[t] = "insufficient funds"
          /\ UNCHANGED <<wallets, transactions>>
          /\ writes'[t] = Empty
          /\ inserted'[t] = <<>>
    ]_vars

C4_Witness == \E t \in DOMAIN pc : result[t] = "insufficient funds"

\* ---- N concurrent debits of one sender
\* Wallet 1 (X) is the sender of every worker's Transfer, wallets 2..n+1 the
\* n distinct recipients, wallet n+2 a donor.  The initial state is the one
\* the program is in after n+2 CreateWallet calls, one committed Transfer
\* between the donor and X that brought X's balance to n*A or (n-1)*A, and
\* the arrival of the n requests Transfer(X, recipient, A).
DebitAmount == InitialBalance \div 2

InitDebits ==
  \E n \in 2..MaxDebits, k \in {0, 1} :
    LET start == (n - k) * DebitAmount
        donor == n + 2
    IN /\ wallets = [w \in 1..(n + 2) |->
             IF w = 1 THEN start
             ELSE IF w = donor THEN 2 * InitialBalance - start
             ELSE InitialBalance]
       /\ transactions =
             IF start > InitialBalance
               THEN <<[from |-> donor, to |-> 1, amount |-> start - InitialBalance]>>
             ELSE IF start < InitialBalance
               THEN <<[from |-> 1, to |-> donor, amount |-> InitialBalance - start]>>
             ELSE <<>>
       /\ rowLock = [w \in 1..(n + 2) |-> NoTx]
       /\ pc = [t \in 1..n |-> "select"]
       /\ fromID = [t \in 1..n |-> 1]
       /\ toID = [t \in 1..n |-> t + 1]
       /\ amount = [t \in 1..n |-> DebitAmount]
       /\ writes = [t \in 1..n |-> Empty]
       /\ inserted = [t \in 1..n |-> <<>>]
       /\ result = [t \in 1..n |-> "none"]

\* no recipient is a sender here, so no cycle of waits can form and the
\* deadlock detector has nothing to end
NextDebits ==
  \E t \in 1..MaxDebits :
    \/ t \in DOMAIN pc /\ TransferSelect(t)
    \/ t \in DOMAIN pc /\ TransferCredit(t)
    \/ t \in DOMAIN pc /\ TransferCommit(t)

SpecDebits == InitDebits /\ [][NextDebits]_vars

DebitsN == Cardinality(DOMAIN pc)

\* X's balance when the n requests arrived, from the donor's committed record
DebitStart ==
  LET In(r) == r.from = DebitsN + 2 /\ r.to = 1
      Out(r) == r.from = 1 /\ r.to = DebitsN + 2
  IN InitialBalance + SumAmounts(In, transactions, Len(transactions))
                    - SumAmounts(Out, transactions, Len(transactions))

AllReturned == \A t \in DOMAIN pc : pc[t] = "done"

Returned(r) == Cardinality({t \in DOMAIN pc : result[t] = r})

\* C5: when the N concurrent Transfers of amount A from X have all returned:
\* if X started with N*A all N succeeded and X is at 0; if X started with
\* (N-1)*A exactly N-1 succeeded and exactly one failed for insufficient funds.
C5_ConcurrentDebits ==
  AllReturned =>
    /\ DebitStart = DebitsN * DebitAmount =>
         Returned("ok") = DebitsN /\ wallets[1] = 0
    /\ DebitStart = (DebitsN - 1) * DebitAmount =>
         /\ Returned("ok") = DebitsN - 1
         /\ Returned("insufficient funds") = 1

C5_Witness ==
  /\ AllReturned
  /\ DebitStart = (DebitsN - 1) * DebitAmount
  /\ Returned("insufficient funds") = 1

\* C6: no reachable state has two Transfers A->B and B->A each holding the row
\* lock of its sender while waiting for the lock of its recipient.
C6_NoCircularWait ==
  ~ \E t, u \in DOMAIN pc :
      /\ t # u
      /\ pc[t] = "credit" /\ pc[u] = "credit"
      /\ rowLock[fromID[t]] = t /\ rowLock[fromID[u]] = u
      /\ toID[t] = fromID[u] /\ toID[u] = fromID[t]

\* C7: a Transfer never holds the row lock of a wallet with a greater id while
\* requesting the row lock of a wallet with a smaller id.  (The order on ids
\* is the numeric one; the mirrored order is broken by the mirrored Transfer.)
C7_CanonicalLockOrder ==
  \A t \in DOMAIN pc :
    ~ /\ pc[t] = "credit"
      /\ rowLock[fromID[t]] = t
      /\ toID[t] \in DOMAIN wallets
      /\ toID[t] < fromID[t]

\* C8: a Transfer whose fromID or toID names no wallet fails and appends no
\* record, so every committed record names two existing wallets.
C8_BothAccountsExist ==
  \A i \in 1..Len(transactions) :
    /\ transactions[i].from \in DOMAIN wallets
    /\ transactions[i].to \in DOMAIN wallets

\* C9: a Transfer with amount <= 0 is rejected and appends no record, so every
\* committed record has amount > 0.
C9_AmountsPositive ==
  \A i \in 1..Len(transactions) : transactions[i].amount > 0

\* C10: in every committed state every wallet's balance is the initial 100
\* plus the committed amounts sent to it minus the committed amounts sent
\* from it.
C10_NoLostUpdates ==
  \A w \in DOMAIN wallets :
    wallets[w] = InitialBalance + Credited(w) - Debited(w)

\* two committed transfers in which one wallet is the recipient of the one and
\* the sender of the other, and one whose two wallets are different
C10_Witness ==
  \E i, j \in 1..Len(transactions) :
    /\ i # j
    /\ transactions[i].to = transactions[j].from
    /\ transactions[i].from # transactions[i].to
    /\ transactions[i].amount > 0 /\ transactions[j].amount > 0

\* ---- helpers on sequences
Contains(seq, r) == \E i \in 1..Len(seq) : seq[i] = r

IsPrefix(p, q) == Len(p) <= Len(q) /\ \A i \in 1..Len(p) : p[i] = q[i]

\* every id a caller can ask about
AnyId == Ids \cup {NoWallet}

\* C11: when Transfer(from, to, amount) returns success, GetHistory(from) and
\* GetHistory(to) contain the record {from, to, amount}, and a record that a
\* GetHistory returns is returned by every later one.
C11_HistoryComplete ==
  [][/\ \A t \in DOMAIN pc :
          (Returns(t) /\ result'[t] = "ok") =>
             LET r == [from |-> fromID[t], to |-> toID[t], amount |-> amount[t]]
             IN /\ Contains(GetHistoryOf(transactions', fromID[t]), r)
                /\ Contains(GetHistoryOf(transactions', toID[t]), r)
     /\ \/ transactions' = transactions
        \/ \A id \in AnyId :
             IsPrefix(GetHistoryOf(transactions, id), GetHistoryOf(transactions', id))
    ]_vars

\* a committed transfer between two different wallets, followed by another
\* committed transfer
C11_Witness ==
  /\ Len(transactions) >= 2
  /\ transactions[1].from # transactions[1].to
  /\ transactions[1].to \in DOMAIN wallets
  /\ \E t \in DOMAIN pc : result[t] = "ok"

\* C12: the log holds one record per committed Transfer, and it only grows
\* at its end: no step, of a failed or rolled-back Transfer either, removes
\* or changes a committed record.
C12_OneImmutableRecord ==
  [][/\ IsPrefix(transactions, transactions')
     /\ Len(transactions') = Cardinality({t \in DOMAIN pc : result'[t] = "ok"})
    ]_vars

\* a committed record and a Transfer that the store failed
C12_Witness ==
  /\ Len(transactions) >= 1
  /\ \E t \in DOMAIN pc : result[t] = "store error"

C14_FailureRollsBack ==
  [][\A t \in DOMAIN pc :
       /\ (Returns(t) /\ result'[t] # "ok") =>
            /\ UNCHANGED <<wallets, transactions>>
            /\ writes'[t] = Empty /\ inserted'[t] = <<>>
            /\ \A w \in DOMAIN rowLock' : rowLock'[w] # t
       /\ pc[t] = "done" =>
            /\ pc'[t] = "done" /\ result'[t] = result[t]
            /\ writes'[t] = Empty /\ inserted'[t] = <<>>
    ]_vars

\* a Transfer failed by the store, with every balance as created and no record
C14_Witness ==
  /\ \E t \in DOMAIN pc : result[t] = "store error"
  /\ Cardinality(DOMAIN wallets) >= 2
  /\ \A w \in DOMAIN wallets : wallets[w] = InitialBalance
  /\ transactions = <<>>

\* C15: GetWallet(id) fails when no wallet has the id, and otherwise returns
\* the wallet's committed balance, which is the balance the committed log
\* accounts for: never a value that an unfinished or aborted Transfer wrote.
C15_GetWalletCommitted ==
  \A id \in AnyId :
    IF id \in DOMAIN wallets
      THEN /\ GetWallet(id).err = "nil"
           /\ GetWallet(id).id = id
           /\ GetWallet(id).balance = InitialBalance + Credited(id) - Debited(id)
      ELSE GetWallet(id).err # "nil"

\* a Transfer holds the lock of a row and an uncommitted version of it that
\* differs from the committed one, which GetWallet returns
C15_Witness ==
  \E t \in DOMAIN pc : \E w \in DOMAIN writes[t] :
    /\ rowLock[w] = t
    /\ writes[t][w] # wallets[w]
    /\ GetWallet(w).balance = wallets[w]

\* C16: no wallet is ever deleted; a step that creates a wallet creates
\* exactly one, with an id no wallet had and balance 100, and leaves every
\* other balance and the log as they were; a wallet's balance changes only in
\* the commit of a Transfer that names it.
C16_CreateWalletFrame ==
  [][/\ DOMAIN wallets \subseteq DOMAIN wallets'
     /\ DOMAIN wallets' # DOMAIN wallets =>
          /\ \E id \in DOMAIN wallets' \ DOMAIN wallets :
               /\ DOMAIN wallets' = DOMAIN wallets \cup {id}
               /\ wallets'[id] = InitialBalance
          /\ \A w \in DOMAIN wallets : wallets'[w] = wallets[w]
          /\ transactions' = transactions
     /\ \A w \in DOMAIN wallets :
          wallets'[w] # wallets[w] =>
             \E t \in DOMAIN pc :
               /\ pc[t] = "commit" /\ Returns(t)
               /\ w \in {fromID[t], toID[t]}
    ]_vars

\* a fresh wallet beside one whose balance a Transfer has changed
C16_Witness ==
  \E x, y \in DOMAIN wallets :
    /\ wallets[x] # InitialBalance
    /\ wallets[y] = InitialBalance /\ GetHistory(y) = <<>>
    /\ transactions # <<>>

\* C17: a Transfer that waits for a row lock held by another Transfer does
\* not depend on the holder to return: it has a step of its own (the lock
\* wait timing out with an error).
C17_WaitCanEnd ==
  \A t \in DOMAIN pc :
    Blocker(t) # NoTx =>
      ENABLED (TransferSelect(t) \/ TransferCredit(t) \/ TransferDeadlock(t))

\* the amounts of the records of history h that satisfy P, added up
HistorySum(P(_), h) == SumAmounts(P, h, Len(h))

\* C18: GetHistory(id) returns committed records only, each with from or to
\* equal to id, and as many as the committed log has of those (none when it
\* has none); for a wallet they account for exactly its committed balance, so
\* no record of an unfinished or aborted Transfer is among them.
C18_HistoryExact ==
  \A id \in AnyId :
    LET h == GetHistory(id)
        ToId(r) == r.to = id
        FromId(r) == r.from = id
    IN /\ \A i \in 1..Len(h) :
            /\ h[i].from = id \/ h[i].to = id
            /\ Contains(transactions, h[i])
       /\ Len(h) = Cardinality({i \in 1..Len(transactions) :
                      transactions[i].from = id \/ transactions[i].to = id})
       /\ id \in DOMAIN wallets =>
            wallets[id] = InitialBalance + HistorySum(ToId, h) - HistorySum(FromId, h)

\* a wallet whose history holds some of the committed records and not all
C18_Witness ==
  \E id \in DOMAIN wallets :
    /\ GetHistory(id) # <<>>
    /\ Len(GetHistory(id)) < Len(transactions)

\* C19: a Transfer(X, X, amount) with X existing and 0 < amount <= balance(X)
\* passes the balance check, holds X's lock when it reaches the recipient
\* UPDATE and is not made to wait by it, and commits with every balance as it
\* was and the one record {X, X, amount} appended.
C19_SelfTransfer ==
  [][\A t \in DOMAIN pc :
       (fromID[t] = toID[t] /\ fromID[t] \in DOMAIN wallets /\ amount[t] > 0) =>
          /\ ( /\ pc[t] = "select" /\ pc'[t] # pc[t]
               /\ rowLock[fromID[t]] \in {NoTx, t}
               /\ wallets[fromID[t]] >= amount[t] ) => pc'[t] = "credit"
          /\ pc[t] = "credit" =>
               /\ rowLock[toID[t]] = t
               /\ ENABLED TransferCredit(t)
               /\ pc'[t] # pc[t] => pc'[t] = "commit"
          /\ (pc[t] = "commit" /\ pc'[t] # pc[t]) =>
               /\ result'[t] = "ok"
               /\ wallets' = wallets
               /\ transactions' = Append(transactions,
                     [from |-> fromID[t], to |-> toID[t], amount |-> amount[t]])
    ]_vars

\* a committed record of a positive amount from a wallet to itself
C19_Witness ==
  \E i \in 1..Len(transactions) :
    /\ transactions[i].from = transactions[i].to
    /\ transactions[i].from \in DOMAIN wallets
    /\ transactions[i].amount > 0

\* C20: a row's uncommitted version belongs to the one Transfer that holds
\* the row's lock, so no two Transfers in flight have the same row locked; a
\* Transfer that has not begun or has returned, whatever it returned, holds
\* no lock and no uncommitted row, and no Transfer waits for one.
C20_LocksEndWithTransfer ==
  /\ \A t \in DOMAIN pc :
       /\ \A w \in DOMAIN writes[t] : rowLock[w] = t
       /\ pc[t] \in {"idle", "done"} =>
            /\ \A w \in DOMAIN rowLock : rowLock[w] # t
            /\ writes[t] = Empty /\ inserted[t] = <<>>
       /\ Blocker(t) # NoTx => pc[Blocker(t)] \in {"credit", "commit"}
  /\ \A t, u \in DOMAIN pc :
       t # u => DOMAIN writes[t] \cap DOMAIN writes[u] = {}

\* a Transfer has returned a store error and another one holds a row lock
C20_Witness ==
  /\ \E t \in DOMAIN pc : pc[t] = "done" /\ result[t] = "store error"
  /\ \E u \in DOMAIN pc : pc[u] \in {"credit", "commit"} /\ rowLock[fromID[u]] = u

====
